---------------------------- MODULE Spec2Model ----------------------------
(***************************************************************************)
(* Model of src/app.py: the Streamlit page that turns a YouTube link into  *)
(* a summary.  Every browser session runs the page script in a thread of   *)
(* its own; the threads share one process and one working directory.       *)
(*                                                                         *)
(* A text is a sequence of one-character strings.  A Python value that is  *)
(* either a str or None is a record [ok, text]: None has ok = FALSE.       *)
(***************************************************************************)
EXTENDS Integers, Sequences, FiniteSets, TLC

\* ------------------------------------------------------------------ bounds
MaxEntries == 2
MaxRuns == 2

Sessions == {1, 2}

\* ------------------------------------------------------------ Python values
None == [ok |-> FALSE, text |-> <<>>]

Str(t) == [ok |-> TRUE, text |-> t]

\* Python truthiness of a str-or-None value: None and "" are falsy.
Truthy(v) == v.ok /\ v.text # <<>>

\* str.strip() == "": empty or made of whitespace only.
IsBlank(t) == \A i \in 1..Len(t) : t[i] = " "

RECURSIVE JoinWithSpace(_)
\* " ".join(parts)
JoinWithSpace(parts) ==
    IF parts = <<>> THEN <<>>
    ELSE IF Len(parts) = 1 THEN parts[1]
    ELSE parts[1] \o <<" ">> \o JoinWithSpace(Tail(parts))

SeqsUpTo(S, n) == UNION {[1..k -> S] : k \in 0..n}

\* ------------------------------------------------------- extract_video_id
IdLen == 11

Lowers == {"a","b","c","d","e","f","g","h","i","j","k","l","m",
           "n","o","p","q","r","s","t","u","v","w","x","y","z"}

Uppers == {"A","B","C","D","E","F","G","H","I","J","K","L","M",
           "N","O","P","Q","R","S","T","U","V","W","X","Y","Z"}

Digits == {"0","1","2","3","4","5","6","7","8","9"}

\* [A-Za-z0-9_-]
IdChars == Lowers \cup Uppers \cup Digits \cup {"_", "-"}

\* The alternatives of the pattern's non-capturing group, in the order the
\* regex engine tries them.  The pattern is a raw string, so "\\." is an
\* escaped backslash followed by any character ("ANY") and "\\?" is an
\* optional backslash (greedy: tried with the backslash first).
Alternatives ==
    << [anchored |-> FALSE, lit |-> <<"v","=">>],
       [anchored |-> FALSE, lit |-> <<"y","o","u","t","u","\\","ANY","b","e","/">>],
       [anchored |-> FALSE, lit |-> <<"e","m","b","e","d","/">>],
       [anchored |-> FALSE, lit |-> <<"v","/">>],
       [anchored |-> FALSE, lit |-> <<"w","a","t","c","h","\\","v","=">>],
       [anchored |-> FALSE, lit |-> <<"w","a","t","c","h","v","=">>],
       [anchored |-> FALSE, lit |-> <<"s","h","o","r","t","s","/">>],
       [anchored |-> FALSE, lit |-> <<"e","/">>],
       [anchored |-> TRUE,  lit |-> <<>>] >>

\* Alternative k matches at position i of u and 11 identifier characters
\* follow it.
MatchesAt(u, i, k) ==
    LET a == Alternatives[k]
        n == Len(a.lit)
    IN  /\ a.anchored => i = 1
        /\ i + n + IdLen - 1 <= Len(u)
        /\ \A j \in 1..n : a.lit[j] = "ANY" \/ a.lit[j] = u[i + j - 1]
        /\ \A j \in 1..IdLen : u[i + n + j - 1] \in IdChars

Min(S) == CHOOSE x \in S : \A y \in S : x <= y

\* re.search(pattern, youtube_url) on a string: leftmost position, first
\* alternative; the position and the alternative of the match, or none.
re_search(u) ==
    LET hits == {i \in 1..(Len(u) + 1) :
                    \E k \in DOMAIN Alternatives : MatchesAt(u, i, k)}
    IN  IF hits = {}
        THEN [found |-> FALSE, at |-> 0, alt |-> 0]
        ELSE LET i == Min(hits)
             IN  [found |-> TRUE, at |-> i,
                  alt |-> Min({k \in DOMAIN Alternatives : MatchesAt(u, i, k)})]

extract_video_id_group0(youtube_url) ==
    IF ~youtube_url.ok
    THEN [ret |-> None, msgs |-> <<"error: Error parsing YouTube URL">>]
    ELSE LET m == re_search(youtube_url.text)
         IN  IF m.found
             THEN [ret |-> Str(SubSeq(youtube_url.text, m.at,
                                      m.at + Len(Alternatives[m.alt].lit) + IdLen - 1)),
                   msgs |-> <<>>]
             ELSE [ret |-> None, msgs |-> <<"error: Invalid YouTube URL">>]

\* youtube_url is a Python value: a str, or something that is not a str
\* (written None here), on which re.search raises TypeError and the except
\* branch answers.  A match returns group(1); no match shows st.error and
\* returns None.
extract_video_id(youtube_url) ==
    IF ~youtube_url.ok
    THEN [ret |-> None, msgs |-> <<"error: Error parsing YouTube URL">>]
    ELSE LET m == re_search(youtube_url.text)
             n == Len(Alternatives[m.alt].lit)
         IN  IF m.found
             THEN [ret |-> Str(SubSeq(youtube_url.text, m.at + n,
                                      m.at + n + IdLen - 1)),
                   msgs |-> <<>>]
             ELSE [ret |-> None, msgs |-> <<"error: Invalid YouTube URL">>]

\* ------------------------------------------------- external collaborators
\* What a call to an external library can do.  Each outcome is a record; kind
\* "Exception" is any exception the wrapper's generic handler catches.

EntryTexts == {<<>>, <<"a">>}

\* YouTubeTranscriptApi.get_transcript: a list of entries, the library's
\* CouldNotRetrieveTranscript, or any other exception.
CaptionOutcomes ==
    {[kind |-> "data", entries |-> e] : e \in SeqsUpTo(EntryTexts, MaxEntries)}
    \cup {[kind |-> "CouldNotRetrieveTranscript", entries |-> <<>>],
          [kind |-> "Exception", entries |-> <<>>]}

\* YouTube(url).streams.filter(only_audio=True).first().download(...)
DownloadOutcomes == {[kind |-> "path"], [kind |-> "Exception"]}

WhisperTexts == {<<>>, <<" ">>, <<"b">>}

\* whisper.load_model("base").transcribe(path): a result dict, with or
\* without the key "text", or an exception.
WhisperOutcomes ==
    {[kind |-> "result", haskey |-> TRUE, text |-> t] : t \in WhisperTexts}
    \cup {[kind |-> "result", haskey |-> FALSE, text |-> <<>>],
          [kind |-> "Exception", haskey |-> FALSE, text |-> <<>>]}

\* translator.translate(...).text
TranslateOutcomes ==
    {[kind |-> "text", text |-> t] : t \in {<<>>, <<"t">>}}
    \cup {[kind |-> "Exception", text |-> <<>>]}

\* model.generate_content(...).text
GenerateOutcomes ==
    {[kind |-> "text", text |-> t] : t \in {<<>>, <<"s">>}}
    \cup {[kind |-> "Exception", text |-> <<>>]}

\* Without a key the service refuses every request.
GenerateOutcomesWith(key) ==
    IF key.ok THEN GenerateOutcomes
    ELSE {o \in GenerateOutcomes : o.kind = "Exception"}

\* generate_pdf(summary): the bytes, or an exception (font file missing,
\* characters outside latin1)
PdfOutcomes == {[kind |-> "bytes"], [kind |-> "Exception"]}

\* One entry of a run's log of calls to external libraries.
Call(fn, arg, src, dest, out) ==
    [fn |-> fn, arg |-> arg, src |-> src, dest |-> dest, out |-> out]

\* The name of the file download_audio writes, relative to the working
\* directory shared by every session.
AudioFileName == <<"video_audio.mp4">>

NoFile == [exists |-> FALSE, by |-> 0, run |-> 0, link |-> <<>>]

\* The entries of the two language selectboxes that the model keeps.
Languages == {"English", "Hindi", "Tamil"}

\* str.lower() on the language names in use.
Lower(l) ==
    CASE l = "English" -> "english"
      [] l = "Hindi" -> "hindi"
      [] l = "Tamil" -> "tamil"
      [] OTHER -> l

\* ------------------------------------------------------------ the wrappers
\* Each wrapper is given the outcome of its external call and yields the
\* value it returns (ret), the messages it shows (msgs) and the external
\* calls it made (calls).

extract_transcript_details_noreturn(video_id, out) ==
    [ret |-> None, msgs |-> <<>>,
     calls |-> <<Call("get_transcript", video_id, "", "", out)>>]

extract_transcript_details(video_id, out) ==
    LET c == <<Call("get_transcript", video_id, "", "", out)>>
    IN  IF out.kind = "data"
        THEN [ret |-> Str(JoinWithSpace(out.entries)), msgs |-> <<>>, calls |-> c]
        ELSE IF out.kind = "CouldNotRetrieveTranscript"
        THEN [ret |-> None,
              msgs |-> <<"warning: Could not retrieve a transcript for this video">>,
              calls |-> c]
        ELSE [ret |-> None,
              msgs |-> <<"error: An unexpected error occurred">>,
              calls |-> c]

download_audio_retry(youtube_url, out) ==
    LET c == Call("download", youtube_url, "", "", out)
    IN  IF out.kind = "path"
        THEN [ret |-> Str(AudioFileName), msgs |-> <<>>, calls |-> <<c>>,
              wrote |-> TRUE]
        ELSE [ret |-> None, msgs |-> <<"error: Error downloading audio">>,
              calls |-> <<c, c>>, wrote |-> FALSE]

download_audio_default(youtube_url, out) ==
    LET c == Call("download", youtube_url, "", "", out)
    IN  IF out.kind = "path"
        THEN [ret |-> Str(AudioFileName), msgs |-> <<>>, calls |-> <<c>>,
              wrote |-> TRUE]
        ELSE [ret |-> Str(AudioFileName),
              msgs |-> <<"error: Error downloading audio">>,
              calls |-> <<c>>, wrote |-> FALSE]

download_audio(youtube_url, out) ==
    LET c == <<Call("download", youtube_url, "", "", out)>>
    IN  IF out.kind = "path"
        THEN [ret |-> Str(AudioFileName), msgs |-> <<>>, calls |-> c,
              wrote |-> TRUE]
        ELSE [ret |-> None, msgs |-> <<"error: Error downloading audio">>,
              calls |-> c, wrote |-> FALSE]

process_audio_with_whisper(audio_path, out) ==
    LET c == <<Call("transcribe", audio_path, "", "", out)>>
    IN  IF out.kind = "result"
        THEN [ret |-> Str(IF out.haskey THEN out.text ELSE <<>>),
              msgs |-> <<>>, calls |-> c]
        ELSE [ret |-> None,
              msgs |-> <<"error: Error processing audio with Whisper">>,
              calls |-> c]

translate_text_retry(text, src_lang, dest_lang, out) ==
    LET c == Call("translate", text.text,
                  IF Lower(src_lang) = "english" THEN "None" ELSE src_lang,
                  dest_lang, out)
    IN  IF ~Truthy(text)
        THEN [ret |-> None, msgs |-> <<"error: No text provided for translation">>,
              calls |-> <<>>]
        ELSE IF out.kind = "text"
        THEN [ret |-> Str(out.text), msgs |-> <<>>, calls |-> <<c>>]
        ELSE [ret |-> None, msgs |-> <<"error: Error translating text">>,
              calls |-> <<c, c>>]

translate_text_swapped(text, src_lang, dest_lang, out) ==
    LET c == Call("translate", text.text, dest_lang, src_lang, out)
    IN  IF ~Truthy(text)
        THEN [ret |-> None, msgs |-> <<"error: No text provided for translation">>,
              calls |-> <<>>]
        ELSE IF out.kind = "text"
        THEN [ret |-> Str(out.text), msgs |-> <<>>, calls |-> <<c>>]
        ELSE [ret |-> None, msgs |-> <<"error: Error translating text">>,
              calls |-> <<c>>]

translate_text_nocheck(text, src_lang, dest_lang, out) ==
    LET src == IF Lower(src_lang) = "english" THEN "None" ELSE src_lang
        c == <<Call("translate", text.text, src, dest_lang, out)>>
    IN  IF out.kind = "text"
        THEN [ret |-> Str(out.text), msgs |-> <<>>, calls |-> c]
        ELSE [ret |-> None, msgs |-> <<"error: Error translating text">>,
              calls |-> c]

\* src_lang "english" becomes None: the service detects the language.
translate_text(text, src_lang, dest_lang, out) ==
    IF ~Truthy(text)
    THEN [ret |-> None, msgs |-> <<"error: No text provided for translation">>,
          calls |-> <<>>]
    ELSE LET src == IF Lower(src_lang) = "english" THEN "None" ELSE src_lang
             c == <<Call("translate", text.text, src, dest_lang, out)>>
         IN  IF out.kind = "text"
             THEN [ret |-> Str(out.text), msgs |-> <<>>, calls |-> c]
             ELSE [ret |-> None, msgs |-> <<"error: Error translating text">>,
                   calls |-> c]

\* summary_prompt: base_prompt with the format and size filled in; one token.
summary_prompt == <<"P">>

generate_genmini_content_default(transcript_text, prompt, out) ==
    LET c == <<Call("generate_content", prompt \o transcript_text.text, "", "", out)>>
    IN  IF ~transcript_text.ok
        THEN [ret |-> None, msgs |-> <<"error: Error generating summary">>,
              calls |-> <<>>]
        ELSE IF out.kind = "text"
        THEN [ret |-> Str(out.text), msgs |-> <<>>, calls |-> c]
        ELSE [ret |-> Str(<<"n", "/", "a">>),
              msgs |-> <<"error: Error generating summary">>, calls |-> c]

\* prompt + transcript_text raises TypeError when transcript_text is not a
\* str, before the service is called; any str, the empty one too, is sent.
generate_genmini_content(transcript_text, prompt, out) ==
    LET c == <<Call("generate_content", prompt \o transcript_text.text, "", "", out)>>
    IN  IF ~transcript_text.ok
        THEN [ret |-> None, msgs |-> <<"error: Error generating summary">>,
              calls |-> <<>>]
        ELSE IF out.kind = "text"
        THEN [ret |-> Str(out.text), msgs |-> <<>>, calls |-> c]
        ELSE [ret |-> None, msgs |-> <<"error: Error generating summary">>,
              calls |-> c]

\* -------------------------------------------------------------------- state
VARIABLES
    pc,               \* where each session's script run stands
    runs,             \* how many times each session pressed Generate Summary
    youtube_link, video_language, summary_language,    \* the widgets
    video_id, transcript_text, audio_path, summary,    \* the script's variables
    calls,            \* the external calls of the current run, in order
    msgs,             \* st.error / st.warning messages of the current run
    shown,            \* the summary st.write displayed, or None
    offered,          \* the download buttons the run rendered
    result,           \* the transcript the transcript stage handed on
    heard,            \* the file contents the run's transcription read
    file,             \* video_audio.mp4 in the shared working directory
    api_key,          \* GOOGLE_API_KEY in the environment, or None
    genai_key,        \* the key genai.configure was last given
    unit              \* one call of a wrapper on its own: inputs and results

vars == <<pc, runs, youtube_link, video_language, summary_language, video_id,
          transcript_text, audio_path, summary, calls, msgs, shown, offered,
          result, heard, file, api_key, genai_key, unit>>

Ended == {"stopped", "done", "crashed"}

NoResult == [text |-> <<>>, source |-> "None"]

\* Sample links a user can type: nothing, text with no identifier in it, a
\* bare identifier, a short link.
Link_empty == <<>>

Link_bad == <<"a","b","c">>

Link_bare == <<"d","Q","w","4","w","9","W","g","X","c","Q">>

Link_short == <<"y","o","u","t","u",".","b","e","/",
                "x","Y","z","0","1","2","3","4","_","-","A">>

Links == {Link_empty, Link_bad, Link_bare, Link_short}

NoOutcome == [kind |-> "none", text |-> <<>>]

\* A wrapper call on its own: the wrapper (fn), its arguments (arg, src, dest),
\* what the external service will answer (out) and, once it has been called
\* (done), what it returned, showed and called.  For extract_video_id, shape
\* and id say how the argument was built.
UnitCase(fn, arg, src, dest, out, shape, id) ==
    [fn |-> fn, arg |-> arg, src |-> src, dest |-> dest, out |-> out,
     shape |-> shape, id |-> id,
     done |-> FALSE, ret |-> None, msgs |-> <<>>, calls |-> <<>>]

NoUnit == UnitCase("none", None, "", "", NoOutcome, "", <<>>)

\* The page before anybody pressed the button.
InitPage ==
    /\ pc = [s \in Sessions |-> "idle"]
    /\ runs = [s \in Sessions |-> 0]
    /\ youtube_link = [s \in Sessions |-> <<>>]
    /\ video_language = [s \in Sessions |-> "English"]
    /\ summary_language = [s \in Sessions |-> "English"]
    /\ video_id = [s \in Sessions |-> None]
    /\ transcript_text = [s \in Sessions |-> None]
    /\ audio_path = [s \in Sessions |-> None]
    /\ summary = [s \in Sessions |-> None]
    /\ calls = [s \in Sessions |-> <<>>]
    /\ msgs = [s \in Sessions |-> <<>>]
    /\ shown = [s \in Sessions |-> None]
    /\ offered = [s \in Sessions |-> {}]
    /\ result = [s \in Sessions |-> NoResult]
    /\ heard = [s \in Sessions |-> NoFile]
    /\ file = NoFile
    /\ genai_key = None

\* The environment either sets GOOGLE_API_KEY or does not.
Init ==
    /\ InitPage
    /\ api_key \in {None, Str(<<"k">>)}
    /\ unit = NoUnit

AfterTranscript_wrongvar(s) ==
    IF summary_language[s] # "English" THEN "translate1" ELSE "summarize"

\* Where the script goes once it holds a transcript (line 203).
AfterTranscript(s) ==
    IF video_language[s] # "English" THEN "translate1" ELSE "summarize"

\* Where the script goes once it holds a summary (line 216).
AfterSummary(s) ==
    IF summary_language[s] # "English" THEN "translate2" ELSE "display"

ButtonGuard_link_only(link, vid) ==
    IF link = <<>>
    THEN [pc |-> "stopped", msgs |-> <<"error: Please enter a YouTube link">>]
    ELSE [pc |-> "captions", msgs |-> <<>>]

\* Lines 179-185: the two tests that stop the run before the first external
\* call.
ButtonGuard(link, vid) ==
    IF link = <<>>
    THEN [pc |-> "stopped", msgs |-> <<"error: Please enter a YouTube link">>]
    ELSE IF ~Truthy(vid)
    THEN [pc |-> "stopped", msgs |-> <<"error: Invalid YouTube URL">>]
    ELSE [pc |-> "captions", msgs |-> <<>>]

\* The user fills the widgets and presses Generate Summary: the script runs
\* from the top (lines 135-185) with fresh variables.
Press(s, links, langs) ==
    /\ pc[s] \in Ended \cup {"idle"}
    /\ runs[s] < MaxRuns
    /\ \E link \in links, vl \in langs, sl \in langs :
        LET r == IF link # <<>> THEN extract_video_id(Str(link))
                 ELSE [ret |-> None, msgs |-> <<>>]
            g == ButtonGuard(link, r.ret)
        IN  /\ youtube_link' = [youtube_link EXCEPT ![s] = link]
            /\ video_language' = [video_language EXCEPT ![s] = vl]
            /\ summary_language' = [summary_language EXCEPT ![s] = sl]
            /\ video_id' = [video_id EXCEPT ![s] = r.ret]
            /\ msgs' = [msgs EXCEPT ![s] = r.msgs \o g.msgs]
            /\ pc' = [pc EXCEPT ![s] = g.pc]
    /\ runs' = [runs EXCEPT ![s] = @ + 1]
    /\ transcript_text' = [transcript_text EXCEPT ![s] = None]
    /\ audio_path' = [audio_path EXCEPT ![s] = None]
    /\ summary' = [summary EXCEPT ![s] = None]
    /\ calls' = [calls EXCEPT ![s] = <<>>]
    /\ shown' = [shown EXCEPT ![s] = None]
    /\ offered' = [offered EXCEPT ![s] = {}]
    /\ result' = [result EXCEPT ![s] = NoResult]
    /\ heard' = [heard EXCEPT ![s] = NoFile]
    /\ genai_key' = api_key
    /\ UNCHANGED <<file, api_key, unit>>

\* Lines 188-190: the captions fetch and the test of what it returned.
FetchCaptions(s) ==
    /\ pc[s] = "captions"
    /\ \E out \in CaptionOutcomes :
        LET r == extract_transcript_details(video_id[s].text, out)
        IN  /\ calls' = [calls EXCEPT ![s] = @ \o r.calls]
            /\ transcript_text' = [transcript_text EXCEPT ![s] = r.ret]
            /\ IF ~Truthy(r.ret)
               THEN /\ msgs' = [msgs EXCEPT ![s] =
                                   @ \o r.msgs \o <<"warning: Transcript not available">>]
                    /\ pc' = [pc EXCEPT ![s] = "download"]
                    /\ UNCHANGED result
               ELSE /\ msgs' = [msgs EXCEPT ![s] = @ \o r.msgs]
                    /\ pc' = [pc EXCEPT ![s] = AfterTranscript(s)]
                    /\ result' = [result EXCEPT ![s] =
                                     [text |-> r.ret.text, source |-> "Captions"]]
    /\ UNCHANGED <<api_key, genai_key, unit, runs, youtube_link, video_language, summary_language, video_id,
                   audio_path, summary, shown, offered, heard, file>>

\* Lines 191-194: the audio download, which writes video_audio.mp4 into the
\* working directory, and the test of the path it returned.
DownloadAudio(s) ==
    /\ pc[s] = "download"
    /\ \E out \in DownloadOutcomes :
        LET r == download_audio(youtube_link[s], out)
        IN  /\ calls' = [calls EXCEPT ![s] = @ \o r.calls]
            /\ audio_path' = [audio_path EXCEPT ![s] = r.ret]
            /\ file' = IF r.wrote
                       THEN [exists |-> TRUE, by |-> s, run |-> runs[s],
                             link |-> youtube_link[s]]
                       ELSE file
            /\ IF ~Truthy(r.ret)
               THEN /\ msgs' = [msgs EXCEPT ![s] =
                                   @ \o r.msgs \o <<"error: Failed to download audio">>]
                    /\ pc' = [pc EXCEPT ![s] = "stopped"]
               ELSE /\ msgs' = [msgs EXCEPT ![s] = @ \o r.msgs]
                    /\ pc' = [pc EXCEPT ![s] = "whisper"]
    /\ UNCHANGED <<api_key, genai_key, unit, runs, youtube_link, video_language, summary_language, video_id,
                   transcript_text, summary, shown, offered, result, heard>>

\* Lines 197-200: the local transcription of whatever the file at audio_path
\* holds when it is read, and the test of the text it returned.
Transcribe(s) ==
    /\ pc[s] = "whisper"
    /\ \E out \in WhisperOutcomes :
        LET r == process_audio_with_whisper(audio_path[s].text, out)
        IN  /\ calls' = [calls EXCEPT ![s] = @ \o r.calls]
            /\ transcript_text' = [transcript_text EXCEPT ![s] = r.ret]
            /\ heard' = [heard EXCEPT ![s] = file]
            /\ IF ~Truthy(r.ret)
               THEN /\ msgs' = [msgs EXCEPT ![s] =
                                   @ \o r.msgs \o <<"error: Failed to process audio">>]
                    /\ pc' = [pc EXCEPT ![s] = "stopped"]
                    /\ UNCHANGED result
               ELSE /\ msgs' = [msgs EXCEPT ![s] = @ \o r.msgs]
                    /\ pc' = [pc EXCEPT ![s] = AfterTranscript(s)]
                    /\ result' = [result EXCEPT ![s] =
                                     [text |-> r.ret.text,
                                      source |-> "LocalTranscription"]]
    /\ UNCHANGED <<api_key, genai_key, unit, runs, youtube_link, video_language, summary_language, video_id,
                   audio_path, summary, shown, offered, file>>

\* Lines 203-207: the transcript is translated to English.
TranslateTranscript(s) ==
    /\ pc[s] = "translate1"
    /\ \E out \in TranslateOutcomes :
        LET r == translate_text(transcript_text[s], Lower(video_language[s]), "en", out)
        IN  /\ calls' = [calls EXCEPT ![s] = @ \o r.calls]
            /\ transcript_text' = [transcript_text EXCEPT ![s] = r.ret]
            /\ IF ~Truthy(r.ret)
               THEN /\ msgs' = [msgs EXCEPT ![s] =
                                   @ \o r.msgs \o <<"error: Failed to translate transcript">>]
                    /\ pc' = [pc EXCEPT ![s] = "stopped"]
               ELSE /\ msgs' = [msgs EXCEPT ![s] = @ \o r.msgs]
                    /\ pc' = [pc EXCEPT ![s] = "summarize"]
    /\ UNCHANGED <<api_key, genai_key, unit, runs, youtube_link, video_language, summary_language, video_id,
                   audio_path, summary, shown, offered, result, heard, file>>

\* Lines 210-213: the summary is generated from the prompt and the transcript.
Summarize(s) ==
    /\ pc[s] = "summarize"
    /\ \E out \in GenerateOutcomesWith(genai_key) :
        LET r == generate_genmini_content(transcript_text[s], summary_prompt, out)
        IN  /\ calls' = [calls EXCEPT ![s] = @ \o r.calls]
            /\ summary' = [summary EXCEPT ![s] = r.ret]
            /\ IF ~Truthy(r.ret)
               THEN /\ msgs' = [msgs EXCEPT ![s] =
                                   @ \o r.msgs \o <<"error: Failed to generate summary">>]
                    /\ pc' = [pc EXCEPT ![s] = "stopped"]
               ELSE /\ msgs' = [msgs EXCEPT ![s] = @ \o r.msgs]
                    /\ pc' = [pc EXCEPT ![s] = AfterSummary(s)]
    /\ UNCHANGED <<api_key, genai_key, unit, runs, youtube_link, video_language, summary_language, video_id,
                   transcript_text, audio_path, shown, offered, result, heard, file>>

\* Lines 216-220: the summary is translated to the summary language.
TranslateSummary(s) ==
    /\ pc[s] = "translate2"
    /\ \E out \in TranslateOutcomes :
        LET r == translate_text(summary[s], "en", Lower(summary_language[s]), out)
        IN  /\ calls' = [calls EXCEPT ![s] = @ \o r.calls]
            /\ summary' = [summary EXCEPT ![s] = r.ret]
            /\ IF ~Truthy(r.ret)
               THEN /\ msgs' = [msgs EXCEPT ![s] =
                                   @ \o r.msgs \o <<"error: Failed to translate summary">>]
                    /\ pc' = [pc EXCEPT ![s] = "stopped"]
               ELSE /\ msgs' = [msgs EXCEPT ![s] = @ \o r.msgs]
                    /\ pc' = [pc EXCEPT ![s] = "display"]
    /\ UNCHANGED <<api_key, genai_key, unit, runs, youtube_link, video_language, summary_language, video_id,
                   transcript_text, audio_path, shown, offered, result, heard, file>>

\* Lines 223-247: the summary is written to the page, the TXT button is
\* rendered, and the PDF button if generate_pdf does not raise.
Display(s) ==
    /\ pc[s] = "display"
    /\ shown' = [shown EXCEPT ![s] = summary[s]]
    /\ \E out \in PdfOutcomes :
        IF out.kind = "bytes"
        THEN /\ offered' = [offered EXCEPT ![s] = {"TXT", "PDF"}]
             /\ pc' = [pc EXCEPT ![s] = "done"]
        ELSE /\ offered' = [offered EXCEPT ![s] = {"TXT"}]
             /\ pc' = [pc EXCEPT ![s] = "crashed"]
    /\ UNCHANGED <<api_key, genai_key, unit, runs, youtube_link, video_language, summary_language, video_id,
                   transcript_text, audio_path, summary, calls, msgs, result, heard,
                   file>>

\* One step of session s's script run.
Step(s) ==
    \/ FetchCaptions(s)
    \/ DownloadAudio(s)
    \/ Transcribe(s)
    \/ TranslateTranscript(s)
    \/ Summarize(s)
    \/ TranslateSummary(s)
    \/ Display(s)

\* One user: every link and language choice, run after run.
Next ==
    \/ Press(1, Links, Languages)
    \/ Step(1)

Spec == Init /\ [][Next]_vars

\* Two users at once, each asking for a different video: the first with both
\* language boxes on Hindi, the second with both on English.
ConcLinks(s) == IF s = 1 THEN {Link_bare} ELSE {Link_short}

ConcLanguages(s) == IF s = 1 THEN {"Hindi"} ELSE {"English"}

NextConc ==
    \E s \in Sessions :
        \/ Press(s, ConcLinks(s), ConcLanguages(s))
        \/ Step(s)

InitConc == Init /\ api_key = Str(<<"k">>)

SpecConc == InitConc /\ [][NextConc]_vars

\* ------------------------------------------------------------------ claims
CallsOf(s, fn) == SelectSeq(calls[s], LAMBDA c : c.fn = fn)

Reported(s, m) == \E i \in 1..Len(msgs[s]) : msgs[s][i] = m

\* The run's captions fetch raised something other than
\* CouldNotRetrieveTranscript.
CaptionsRaisedOther(s) ==
    \E i \in 1..Len(calls[s]) :
        calls[s][i].fn = "get_transcript" /\ calls[s][i].out.kind = "Exception"

\* The run's captions fetch signalled that there is no transcript.
CaptionsUnavailable(s) ==
    \E i \in 1..Len(calls[s]) :
        /\ calls[s][i].fn = "get_transcript"
        /\ calls[s][i].out.kind = "CouldNotRetrieveTranscript"

\* The run's captions fetch returned entries whose joined text is empty.
CaptionsEmpty(s) ==
    \E i \in 1..Len(calls[s]) :
        /\ calls[s][i].fn = "get_transcript"
        /\ calls[s][i].out.kind = "data"
        /\ JoinWithSpace(calls[s][i].out.entries) = <<>>

\* The run's captions fetch returned entries whose joined text is not empty.
CaptionsNonEmpty(s) ==
    \E i \in 1..Len(calls[s]) :
        /\ calls[s][i].fn = "get_transcript"
        /\ calls[s][i].out.kind = "data"
        /\ JoinWithSpace(calls[s][i].out.entries) # <<>>

DownloadSucceeded(s) ==
    \E i \in 1..Len(calls[s]) :
        calls[s][i].fn = "download" /\ calls[s][i].out.kind = "path"

DownloadFailed(s) ==
    \E i \in 1..Len(calls[s]) :
        calls[s][i].fn = "download" /\ calls[s][i].out.kind = "Exception"

\* C1: a run whose captions fetch fails with anything but the "transcript
\* unavailable" signal ends in failure there: it is stopped, and it never
\* downloads audio, transcribes or summarizes.
C1_FetchErrorEndsRun ==
    \A s \in Sessions :
        CaptionsRaisedOther(s) =>
            /\ pc[s] = "stopped"
            /\ CallsOf(s, "download") = <<>>
            /\ CallsOf(s, "transcribe") = <<>>
            /\ CallsOf(s, "generate_content") = <<>>
            /\ ~shown[s].ok

\* C2: a run whose captions fetch returns a non-empty transcript hands that
\* text on with source Captions and never calls the audio download or the
\* local transcriber.
C2_CaptionsDoneNoFallback ==
    \A s \in Sessions :
        CaptionsNonEmpty(s) =>
            /\ result[s].source = "Captions"
            /\ result[s].text = JoinWithSpace(CallsOf(s, "get_transcript")[1].out.entries)
            /\ pc[s] \notin {"captions", "download", "whisper"}
            /\ CallsOf(s, "download") = <<>>
            /\ CallsOf(s, "transcribe") = <<>>

C2_Witness ==
    \E s \in Sessions :
        CaptionsNonEmpty(s) /\ pc[s] = "done" /\ result[s].source = "Captions"

\* C3: the transcript stage never hands on a transcript that is empty or
\* whitespace only, whichever source it came from.
C3_NoBlankTranscript ==
    \A s \in Sessions :
        result[s].source # "None" => ~IsBlank(result[s].text)

\* C4: when a run that created the temporary audio file has ended, the file
\* is gone.
C4_AudioFileDeleted ==
    \A s \in Sessions :
        (pc[s] \in Ended /\ DownloadSucceeded(s)) => ~file.exists

\* C5: a run's transcription reads exactly the audio that run downloaded.
C5_OwnAudioOnly ==
    \A s \in Sessions :
        heard[s].exists =>
            heard[s] = [exists |-> TRUE, by |-> s, run |-> runs[s],
                        link |-> youtube_link[s]]

\* C6: after captions that are unavailable or empty, the audio download is
\* called exactly once, and after a successful download the transcriber is
\* called exactly once, on the path the download returned.
C6_FallbackOnceEach ==
    \A s \in Sessions :
        (CaptionsUnavailable(s) \/ CaptionsEmpty(s)) =>
            IF pc[s] = "download"
            THEN CallsOf(s, "download") = <<>>
            ELSE /\ Len(CallsOf(s, "download")) = 1
                 /\ DownloadSucceeded(s) =>
                        IF pc[s] = "whisper"
                        THEN CallsOf(s, "transcribe") = <<>>
                        ELSE /\ Len(CallsOf(s, "transcribe")) = 1
                             /\ audio_path[s] = Str(AudioFileName)
                             /\ CallsOf(s, "transcribe")[1].arg = audio_path[s].text

C6_Witness ==
    \E s \in Sessions :
        /\ CaptionsUnavailable(s)
        /\ DownloadSucceeded(s)
        /\ Len(CallsOf(s, "transcribe")) = 1
        /\ pc[s] = "done"

\* C7: when captions are unavailable and the audio download fails, the run is
\* stopped with the download error reported, and the transcriber, the
\* translator and the summarizer are never called.
C7_DownloadFailureStops ==
    \A s \in Sessions :
        (CaptionsUnavailable(s) /\ DownloadFailed(s)) =>
            /\ pc[s] = "stopped"
            /\ Reported(s, "error: Error downloading audio")
            /\ msgs[s][Len(msgs[s])] = "error: Failed to download audio"
            /\ CallsOf(s, "transcribe") = <<>>
            /\ CallsOf(s, "translate") = <<>>
            /\ CallsOf(s, "generate_content") = <<>>
            /\ ~shown[s].ok

C7_Witness ==
    \E s \in Sessions :
        CaptionsUnavailable(s) /\ DownloadFailed(s) /\ pc[s] = "stopped"

\* C8: a run that displays a summary with both languages other than English
\* has called translate(V -> en) on the transcript, then the summarizer on
\* the prompt and that translation, then translate(en -> S) on the summary,
\* and nothing else of the two; what it displays is the second translation.
C8_TranslateSummarizeTranslate ==
    \A s \in Sessions :
        (shown[s].ok /\ video_language[s] # "English"
                     /\ summary_language[s] # "English") =>
            LET ext == SelectSeq(calls[s],
                           LAMBDA c : c.fn \in {"translate", "generate_content"})
            IN  /\ Len(ext) = 3
                /\ ext[1].fn = "translate"
                /\ ext[1].arg = result[s].text
                /\ ext[1].src = Lower(video_language[s])
                /\ ext[1].dest = "en"
                /\ ext[2].fn = "generate_content"
                /\ ext[2].arg = summary_prompt \o ext[1].out.text
                /\ ext[3].fn = "translate"
                /\ ext[3].arg = ext[2].out.text
                /\ ext[3].src = "en"
                /\ ext[3].dest = Lower(summary_language[s])
                /\ shown[s].text = ext[3].out.text

C8_Witness ==
    \E s \in Sessions :
        /\ pc[s] = "done"
        /\ shown[s].ok
        /\ video_language[s] = "Hindi"
        /\ summary_language[s] = "Tamil"

\* C9: in one run the captions fetch, the audio download, the transcription
\* and the summarization are each called at most once, and the translator at
\* most once towards English and at most once from English.
C9_NoRetry ==
    \A s \in Sessions :
        /\ Len(CallsOf(s, "get_transcript")) <= 1
        /\ Len(CallsOf(s, "download")) <= 1
        /\ Len(CallsOf(s, "transcribe")) <= 1
        /\ Len(CallsOf(s, "generate_content")) <= 1
        /\ Len(CallsOf(s, "translate")) <= 2
        /\ Len(SelectSeq(CallsOf(s, "translate"), LAMBDA c : c.dest = "en")) <= 1
        /\ Len(SelectSeq(CallsOf(s, "translate"), LAMBDA c : c.src = "en")) <= 1

C9_Witness ==
    \E s \in Sessions :
        /\ pc[s] = "stopped"
        /\ Len(CallsOf(s, "translate")) = 2
        /\ Len(calls[s]) = 6
        /\ calls[s][6].out.kind = "Exception"

StageErrors ==
    {"error: Please enter a YouTube link", "error: Invalid YouTube URL",
     "error: Failed to download audio", "error: Failed to process audio",
     "error: Failed to translate transcript", "error: Failed to generate summary",
     "error: Failed to translate summary"}

\* C10: a run displays a summary and offers the exports only if no external
\* call of the run raised an error (the "transcript unavailable" signal is
\* the trigger of the fallback, not an error), and a run that ended without
\* a summary has reported the error of the stage that failed.
C10_NoFailureBecomesSuccess ==
    \A s \in Sessions :
        /\ (shown[s].ok \/ offered[s] # {}) =>
               \A i \in 1..Len(calls[s]) : calls[s][i].out.kind # "Exception"
        /\ (pc[s] \in Ended /\ ~shown[s].ok) =>
               /\ msgs[s] # <<>>
               /\ msgs[s][Len(msgs[s])] \in StageErrors

\* The external call failed, or it returned a text and the text is empty.
CallFailed(c) ==
    \/ c.out.kind = "Exception"
    \/ c.fn = "transcribe" /\ (~c.out.haskey \/ c.out.text = <<>>)
    \/ c.fn \in {"translate", "generate_content"} /\ c.out.text = <<>>

\* C16: once the audio download, the transcription, a translation or the
\* summarization has failed or returned empty text, it is the last external
\* call of the run: the run is stopped, and nothing is displayed or offered
\* for download.
C16_FailureStopsRun ==
    \A s \in Sessions :
        \A i \in 1..Len(calls[s]) :
            (calls[s][i].fn # "get_transcript" /\ CallFailed(calls[s][i])) =>
                /\ i = Len(calls[s])
                /\ pc[s] = "stopped"
                /\ ~shown[s].ok
                /\ offered[s] = {}

C16_Witness ==
    \E s \in Sessions :
        /\ pc[s] = "stopped"
        /\ Len(calls[s]) = 4
        /\ calls[s][4].fn = "generate_content"
        /\ calls[s][4].out.kind = "Exception"

\* C17: a run whose link is empty or whose link gave no video identifier is
\* stopped with an error before any external call.
C17_NoIdNoCalls ==
    \A s \in Sessions :
        (pc[s] # "idle" /\ (youtube_link[s] = <<>> \/ ~Truthy(video_id[s]))) =>
            /\ pc[s] = "stopped"
            /\ calls[s] = <<>>
            /\ msgs[s] # <<>>
            /\ msgs[s][Len(msgs[s])] \in
                   {"error: Please enter a YouTube link", "error: Invalid YouTube URL"}
            /\ ~shown[s].ok

C17_Witness ==
    \E s \in Sessions :
        youtube_link[s] = Link_bad /\ ~video_id[s].ok /\ pc[s] = "stopped"

\* C18: in a run that holds a transcript (line 202 reached), the translator
\* is called on the transcript exactly when the video language is not
\* English, and on the summary exactly when the summary language is not
\* English and the summarizer returned a summary; with both languages English
\* the translator is never called and the summarizer gets the prompt and the
\* transcript as the transcript stage produced it.
C18_TranslateOnlyWhenSelected ==
    \A s \in Sessions :
        LET ext == SelectSeq(calls[s],
                       LAMBDA c : c.fn \in {"translate", "generate_content"})
            gen == CallsOf(s, "generate_content")
            onTranscript == ext # <<>> /\ ext[1].fn = "translate"
                            /\ ext[1].arg = result[s].text
            onSummary == ext # <<>> /\ ext[Len(ext)].fn = "translate"
                         /\ Len(ext) > 1 /\ ext[Len(ext) - 1].fn = "generate_content"
                         /\ ext[Len(ext)].arg = ext[Len(ext) - 1].out.text
            summarized == gen # <<>> /\ ~CallFailed(gen[1])
        IN  (result[s].source # "None") =>
              /\ pc[s] # "translate1" =>
                    /\ onTranscript <=> video_language[s] # "English"
                    /\ Len(SelectSeq(CallsOf(s, "translate"),
                                     LAMBDA c : c.dest = "en")) =
                           IF video_language[s] # "English" THEN 1 ELSE 0
              /\ pc[s] \in Ended \cup {"display"} =>
                    /\ onSummary <=> (summary_language[s] # "English" /\ summarized)
                    /\ Len(SelectSeq(CallsOf(s, "translate"),
                                     LAMBDA c : c.src = "en")) =
                           IF summary_language[s] # "English" /\ summarized
                           THEN 1 ELSE 0
              /\ (video_language[s] = "English" /\ summary_language[s] = "English") =>
                    /\ CallsOf(s, "translate") = <<>>
                    /\ gen # <<>> => gen[1].arg = summary_prompt \o result[s].text

C18_Witness ==
    \E s \in Sessions :
        /\ pc[s] = "done"
        /\ video_language[s] = "English"
        /\ summary_language[s] = "Hindi"
        /\ Len(CallsOf(s, "translate")) = 1

\* C11: when GOOGLE_API_KEY is absent the program fails at startup: no run
\* makes an external call, and none reports a summarization failure.
C11_MissingKeyFatalAtStartup ==
    ~api_key.ok =>
        \A s \in Sessions :
            /\ calls[s] = <<>>
            /\ ~Reported(s, "error: Error generating summary")

\* ------------------------------------------------- the wrappers on their own
\* Identifiers: two characters of the class, the first repeated k times, the
\* second filling up to n characters.
SampleChars == {"a", "Z", "0", "_", "-", "e", "v"}

Tokens(n) ==
    {[i \in 1..n |-> IF i <= k THEN c1 ELSE c2] :
        c1 \in SampleChars, c2 \in SampleChars, k \in 0..n}

SampleIds == Tokens(IdLen) \cup {Link_bare}

Host == <<"h","t","t","p","s",":","/","/","w","w","w",".","y","o","u","t","u","b","e",".","c","o","m","/">>

ShortHost == <<"h","t","t","p","s",":","/","/","y","o","u","t","u",".","b","e","/">>

\* The URL shapes of a video link, by name.
Shape(name, id) ==
    CASE name = "watch" -> Host \o <<"w","a","t","c","h","?","v","=">> \o id
      [] name = "short" -> ShortHost \o id
      [] name = "short_query" -> ShortHost \o id \o <<"?","f","e","a","t","u","r","e","=","s","h","a","r","e">>
      [] name = "embed" -> Host \o <<"e","m","b","e","d","/">> \o id
      [] name = "shorts" -> Host \o <<"s","h","o","r","t","s","/">> \o id
      [] name = "bare" -> id

ValidShapes == {"watch", "short", "short_query", "embed", "shorts", "bare"}

\* Strings that are not video links: no identifier, an identifier that is too
\* short, a token that is too long, a character outside the class.
OtherStrings ==
    {<<>>, Link_bad, Host,
     <<"n","o","t","a","v","a","l","i","d","u","r","l">>,
     <<"n","o","t"," ","a"," ","u","r","l">>,
     <<"a","b","c","!","d","e","f","g","h","i","j">>,
     <<"h","t","t","p","s",":","/","/","e","x","a","m","p","l","e",".","c","o","m","/","p","a","g","e">>,
     <<"h","t","t","p","s",":","/","/","w","w","w",".","y","o","u","t","u","b","e",".","c","o","m","/","p","l","a","y","l","i","s","t","?","l","i","s","t","=","P","L","0","1","2","3","4","5","6","7","8","9">>}
    \cup {Shape(n, t) : n \in ValidShapes, t \in Tokens(IdLen - 1)}
    \cup Tokens(IdLen + 1)

UrlCases ==
    {UnitCase("extract_video_id", Str(Shape(n, id)), "", "", NoOutcome, n, id) :
        n \in ValidShapes, id \in SampleIds}
    \cup {UnitCase("extract_video_id", Str(u), "", "", NoOutcome, "other", <<>>) :
            u \in OtherStrings}
    \cup {UnitCase("extract_video_id", None, "", "", NoOutcome, "not a str", <<>>)}

TranslateCases ==
    {UnitCase("translate_text", t, src, dest, out, "", <<>>) :
        t \in {None, Str(<<>>), Str(<<" ">>), Str(<<"a">>)},
        src \in {"english", "English", "hindi", "en"},
        dest \in {"en", "hindi", "tamil"},
        out \in TranslateOutcomes}

SummarizeCases ==
    {UnitCase("generate_genmini_content", t, "", "", out, "", <<>>) :
        t \in {None, Str(<<>>), Str(<<" ">>), Str(<<"a">>)},
        out \in GenerateOutcomes}

InitUnit ==
    /\ InitPage
    /\ api_key = Str(<<"k">>)
    /\ unit \in UrlCases \cup TranslateCases \cup SummarizeCases

Returned(r) ==
    /\ unit' = [unit EXCEPT !.done = TRUE, !.ret = r.ret, !.msgs = r.msgs,
                            !.calls = r.calls]
    /\ UNCHANGED <<pc, runs, youtube_link, video_language, summary_language,
                   video_id, transcript_text, audio_path, summary, calls, msgs,
                   shown, offered, result, heard, file, api_key, genai_key>>

CallExtractVideoId ==
    /\ unit.fn = "extract_video_id"
    /\ ~unit.done
    /\ LET r == extract_video_id(unit.arg)
       IN  Returned([ret |-> r.ret, msgs |-> r.msgs, calls |-> <<>>])

CallTranslateText ==
    /\ unit.fn = "translate_text"
    /\ ~unit.done
    /\ Returned(translate_text(unit.arg, unit.src, unit.dest, unit.out))

CallGenerateContent ==
    /\ unit.fn = "generate_genmini_content"
    /\ ~unit.done
    /\ Returned(generate_genmini_content(unit.arg, summary_prompt, unit.out))

NextUnit ==
    \/ CallExtractVideoId
    \/ CallTranslateText
    \/ CallGenerateContent

SpecUnit == InitUnit /\ [][NextUnit]_vars

\* The markers the claim lists before an identifier.
ClaimMarkers ==
    {<<"v","=">>, <<"y","o","u","t","u",".","b","e","/">>, <<"e","m","b","e","d","/">>,
     <<"v","/">>, <<"s","h","o","r","t","s","/">>, <<"e","/">>}

\* A recognized shape: a str that is a bare identifier, or that holds one of
\* the markers with 11 identifier characters right after it.
RecognizedShape(v) ==
    /\ v.ok
    /\ \/ Len(v.text) = IdLen /\ \A j \in 1..IdLen : v.text[j] \in IdChars
       \/ \E m \in ClaimMarkers, i \in 1..Len(v.text) :
            /\ i + Len(m) + IdLen - 1 <= Len(v.text)
            /\ \A j \in 1..Len(m) : v.text[i + j - 1] = m[j]
            /\ \A j \in 1..IdLen : v.text[i + Len(m) + j - 1] \in IdChars

\* C12: on an input that is not a recognized shape, a str or not,
\* extract_video_id reports an error and returns no identifier.
C12_UnrecognizedFails ==
    (unit.fn = "extract_video_id" /\ unit.done /\ ~RecognizedShape(unit.arg)) =>
        /\ ~unit.ret.ok
        /\ unit.msgs # <<>>

\* C13: on each valid shape built from an identifier, extract_video_id
\* returns that identifier.
C13_ValidShapesGiveId ==
    (unit.fn = "extract_video_id" /\ unit.done /\ unit.shape \in ValidShapes) =>
        /\ unit.ret = Str(unit.id)
        /\ unit.msgs = <<>>

C13_Witness ==
    /\ unit.fn = "extract_video_id"
    /\ unit.done
    /\ unit.shape = "short_query"
    /\ unit.id = Link_bare
    /\ unit.ret = Str(Link_bare)

\* C14: translate_text on empty text reports an error and returns None
\* without calling the translation service, and it reports an error and
\* returns None when the service raises.
C14_TranslateFails ==
    (unit.fn = "translate_text" /\ unit.done) =>
        /\ ~Truthy(unit.arg) =>
              /\ unit.ret = None
              /\ unit.calls = <<>>
              /\ unit.msgs = <<"error: No text provided for translation">>
        /\ (Truthy(unit.arg) /\ unit.out.kind = "Exception") =>
              /\ unit.ret = None
              /\ Len(unit.calls) = 1
              /\ unit.msgs = <<"error: Error translating text">>

C14_Witness ==
    /\ unit.fn = "translate_text"
    /\ unit.done
    /\ unit.arg = Str(<<>>)
    /\ unit.out.kind = "text"
    /\ unit.ret = None

\* C15: generate_genmini_content on empty text reports an error and returns
\* None without calling the summarization service, and it reports an error
\* and returns None when the service raises.
C15_SummarizeFails ==
    (unit.fn = "generate_genmini_content" /\ unit.done) =>
        /\ ~Truthy(unit.arg) =>
              /\ unit.ret = None
              /\ unit.calls = <<>>
              /\ unit.msgs # <<>>
        /\ (Truthy(unit.arg) /\ unit.out.kind = "Exception") =>
              /\ unit.ret = None
              /\ unit.msgs = <<"error: Error generating summary">>
=============================================================================
